---- MODULE Spec2Model ----
(***************************************************************************)
(* A model of the Heroku application prober (package main): main fans out   *)
(* one procApp goroutine per line of the input file, waits on the           *)
(* WaitGroup, pauses for a line of standard input and then drains the       *)
(* buffered channel into the CSV report.                                    *)
(*                                                                         *)
(* The repository holds two versions of the program.  The model follows     *)
(* the later one (the Avant markers, the EOF and certificate branches, the  *)
(* pause).  main.go is the earlier one: the same main without the pause, a  *)
(* procApp with one branch for every http.Get error and one Heroku test.    *)
(*                                                                         *)
(* Strings are TLA+ strings; bytes.Contains and strings.Contains are the    *)
(* substring search Contains below, so the classifier works on the literal  *)
(* marker strings of the source.                                           *)
(***************************************************************************)
EXTENDS Integers, Sequences, FiniteSets, TLC

VARIABLES
    net,        \* which population of responses the network serves
    stdin,      \* what the next read of standard input returns: <<>> while
                \* nothing is there to read, else <<text>>
    apps,       \* the lines of the input file (package variable apps)
    mpc,        \* main's position
    i,          \* main's loop counter (spawn loop, then drain loop)
    wg,         \* the WaitGroup counter
    chn,        \* the buffered channel: a queue of *reqRslt pointers
    header,     \* TRUE once the report's header line is printed
    rows,       \* the report's data rows, in print order
    recv,       \* the pointers main has received (the values of v)
    sent,       \* the pointers put on the channel, in the order of the sends
    pc,         \* each goroutine's position in procApp
    ferr,       \* procApp's local ferr
    resp,       \* procApp's local resp: <<>> is nil, <<st>> a response
    body,       \* procApp's local body
    tLen,       \* procApp's local tLen
    tReslt,     \* procApp's local tReslt, the record the pointer refers to
    bodyOpen,   \* the state of resp.Body: "none", "open" or "closed"
    requests,   \* the HTTP GETs issued, as <<goroutine, URL>>
    panicking,  \* the goroutines that are unwinding a panic
    crashed     \* TRUE once an unrecovered panic has ended the process

vars == <<net, stdin, sent, apps, mpc, i, wg, chn, header, rows, recv, pc, ferr, resp, body,
          tLen, tReslt, bodyOpen, requests, panicking, crashed>>

mainVars == <<mpc, i, header, rows, recv>>
localVars == <<ferr, resp, body, tLen, tReslt>>

----------------------------------------------------------------------------
(* Bounds of the model *)

MaxApps == 2        \* the longest input file, in lines
MaxPieces == 3      \* the most fragments a served body is built from
MaxFill == 52       \* the longest plain-text body

----------------------------------------------------------------------------
(* Strings *)

\* bytes.Contains(b, m) and strings.Contains(b, m): m occurs in b
Contains(b, m) ==
    \E k \in 0..(Len(b) - Len(m)) : SubSeq(b, k + 1, k + Len(m)) = m

NoErr == "<nil>"

AvantUS == "We have been notified, please try again later. Have a question? Call us at 800-712-5407"
AvantUK == "We have been notified, please try again later. Have a question? Call us at 0800 610 1516"
HerokuErr == "www.herokucdn.com/error-pages/application-error.html"
HerokuWel == "Welcome to your new app"
CertMarker == "x509: certificate is valid for"
EOFMarker == "EOF"

----------------------------------------------------------------------------
(* The environment: input files, network outcomes, standard input *)

Sites == {"", "a"}

\* Init's choice of apps: every file of at most n lines over Sites
AppLists(n) == UNION {[1..k -> Sites] : k \in 0..n}

Statuses == {200, 503}

Page == "<html><body>hi</body></html>"
Pieces == {AvantUS, AvantUK, HerokuErr, HerokuWel, Page,
           "<html>", "<HTML>", "<Html>", "<body>", "<BODY>"}

RECURSIVE Joined(_)
\* the bodies made of exactly n pieces
Joined(n) == IF n = 0 THEN {""}
             ELSE {b \o p : b \in Joined(n - 1), p \in Pieces}

Pattern == "0123456789abcdefghijklmnopqrstuvwxyzABCDEFGHIJKLMNOPQRSTUVWXYZ-_0123456789abcdefghijklmnopqrstuvwxyz"

\* the plain-text body of n bytes
Fill(n) == SubSeq(Pattern, 1, n)

WideBodies == UNION {Joined(n) : n \in 0..MaxPieces} \cup {Fill(n) : n \in 0..MaxFill}
FleetBodies == {Page, HerokuWel \o Page, AvantUS, AvantUK, HerokuErr, "ok"}

WideGetErrs == {"Get http://a.herokuapp.com: EOF",
                "Get http://a.herokuapp.com: x509: certificate is valid for *.herokuapp.com, not a.herokuapp.com",
                "Get http://a.herokuapp.com: x509: certificate is valid for EOF.example.com, not a.herokuapp.com",
                "Get http://a.herokuapp.com: dial tcp: lookup a.herokuapp.com: no such host",
                "unexpected eof",
                ""}
FleetGetErrs == {"Get http://a.herokuapp.com: EOF",
                 "x509: certificate is valid for *.herokuapp.com, not a.herokuapp.com",
                 "Get http://a.herokuapp.com: dial tcp: lookup a.herokuapp.com: no such host"}

WideReadErrs == {"unexpected EOF", "read tcp: connection reset by peer"}
FleetReadErrs == {"unexpected EOF"}

\* what http.Get may return: an error and no response, or a response
GetErrs == IF net = "wide" THEN WideGetErrs ELSE FleetGetErrs
GetStatuses == IF net = "wide" THEN Statuses ELSE {200}
\* what ioutil.ReadAll may return: an error, or the whole body
ReadErrs == IF net = "wide" THEN WideReadErrs ELSE FleetReadErrs
Bodies == IF net = "wide" THEN WideBodies ELSE FleetBodies

\* what reader.ReadString('\n') may return: a line, or "" at the end of input
StdinReads == {"", "go\n"}

----------------------------------------------------------------------------
(* reqRslt and the classifier *)

Zero == [App |-> "", Accessible |-> FALSE, Status |-> 0, Notes |-> ""]

fill(r, app, acc, st, nts) ==
    [r EXCEPT !.Accessible = acc, !.App = app, !.Notes = nts, !.Status = st]

\* a test for the lower-case body tag alone
isHTMLLowerBody(b) ==
    IF Contains(b, "<html") \/ Contains(b, "<HTML")
    THEN Contains(b, "<body")
    ELSE FALSE

isHTML(b) ==
    IF Contains(b, "<html") \/ Contains(b, "<HTML")
    THEN Contains(b, "<body") \/ Contains(b, "<BODY")
    ELSE FALSE

isHerokuErrPage(b) == Contains(b, HerokuErr)

isHerokuWelPage(b) == Contains(b, HerokuWel)

\* a test for the first variant alone
isAvantErrPageFirstOnly(b) ==
    IF Contains(b, AvantUS) THEN TRUE
    ELSE FALSE

isAvantErrPage(b) ==
    IF Contains(b, AvantUS) THEN TRUE
    ELSE IF Contains(b, AvantUK) THEN TRUE
    ELSE FALSE

\* fmt.Sprintf("http://%v.herokuapp.com", site)
tURLOf(site) == "http://" \o site \o ".herokuapp.com"

tLenInit == 50

\* a clamp that lets a longer body through with one byte more
ClampLenOff(t, b) == IF Len(b) <= t THEN Len(b) ELSE t + 1

\* the if that clamps tLen to the body's length
ClampLen(t, b) == IF Len(b) < t THEN Len(b) ELSE t

\* fmt.Sprintf("found this (first %v bytes): %v...", tLen, string(body[:tLen]))
Preview(t, b) ==
    "found this (first " \o ToString(t) \o " bytes): " \o SubSeq(b, 1, t) \o "..."

\* no test of the identifier's length
EmptySiteUntested(site) == FALSE

\* the branch taken when len(site) == 0
EmptySite(site) == Len(site) = 0

procAppEmpty(r, site) == fill(r, site, FALSE, 999, "no site name was provided")

\* one branch for every error of http.Get
procAppGetErrOneBranch(r, site, msg) ==
    fill(r, site, FALSE, 999, "error getting site response: " \o msg)

\* the branches taken when http.Get returned the error msg
procAppGetErr(r, site, msg) ==
    IF Contains(msg, EOFMarker)
    THEN fill(r, site, FALSE, 999, "no response data: " \o msg)
    ELSE IF Contains(msg, CertMarker)
    THEN fill(r, site, FALSE, 200, "SSL certificate error: " \o msg)
    ELSE fill(r, site, FALSE, 999, "error getting site response: " \o msg)

\* a body-read failure reported as reachable
procAppReadErrReachable(r, site, msg) ==
    fill(r, site, TRUE, 999, "error reading the site response: " \o msg)

\* the branch taken when ioutil.ReadAll returned the error msg
procAppReadErr(r, site, msg) ==
    fill(r, site, FALSE, 999, "error reading the site response: " \o msg)

\* the HTML test placed before the marker tests
procAppBodyHtmlFirst(r, site, st, b, t) ==
    IF isHTML(b) THEN fill(r, site, TRUE, st, "HTML page")
    ELSE IF isAvantErrPage(b) THEN fill(r, site, FALSE, st, "Avant error page")
    ELSE IF isHerokuErrPage(b) THEN fill(r, site, FALSE, st, "Heroku error page")
    ELSE IF isHerokuWelPage(b) THEN fill(r, site, FALSE, st, "Heroku welcome page")
    ELSE fill(r, site, TRUE, st, Preview(ClampLen(t, b), b))

\* the classification of a body that was read: the result record
procAppBody(r, site, st, b, t) ==
    IF isAvantErrPage(b) THEN fill(r, site, FALSE, st, "Avant error page")
    ELSE IF isHerokuErrPage(b) THEN fill(r, site, FALSE, st, "Heroku error page")
    ELSE IF isHerokuWelPage(b) THEN fill(r, site, FALSE, st, "Heroku welcome page")
    ELSE IF isHTML(b) THEN fill(r, site, TRUE, st, "HTML page")
    ELSE fill(r, site, TRUE, st, Preview(ClampLen(t, b), b))

\* tLen after the classification: only the fallback branch assigns it
procAppTLen(b, t) ==
    IF isAvantErrPage(b) \/ isHerokuErrPage(b) \/ isHerokuWelPage(b) \/ isHTML(b)
    THEN t
    ELSE ClampLen(t, b)

----------------------------------------------------------------------------
(* The program *)

Procs == 1..Len(apps)

\* a channel one slot short
ChanCapShort == Len(apps) - 1

\* make(chan *reqRslt, len(apps))
ChanCap == Len(apps)

\* the spawn loop's condition i < len(apps)
SpawnBound == Len(apps)

\* a drain loop that always receives once
DrainBoundAtLeastOne == IF Len(apps) = 0 THEN Len(apps) + 1 ELSE Len(apps)

\* a drain loop that stops one short
DrainBoundShort == Len(apps) - 1

\* the drain loop's condition i < len(apps)
DrainBound == Len(apps)

\* a wait that returns while one goroutine is still counted
WaitReturnsEarly == wg <= 1

\* a main that does not wait
WaitSkipped == TRUE

\* wg.Wait() returns when the counter is zero
WaitReturns == wg = 0

\* a return in place of goto WrapUp
WrapUpSkipped == "wgdone"

\* the label the branches of procApp jump to: the channel send
WrapUp == "send"

\* tReslt as one record shared by the goroutines
SlotShared(w) == IF Procs = {} THEN w ELSE CHOOSE v \in Procs : \A u \in Procs : v <= u

\* tReslt is a local of procApp: each call has its own record, and &tReslt
\* points at it
Slot(w) == w

\* ferr as a variable shared by the goroutines: the value tested may be one
\* that another goroutine assigned
sharedFerr(w, own) ==
    IF \E v \in Procs \ {w} : ferr[v] # NoErr
    THEN ferr[CHOOSE v \in Procs \ {w} : ferr[v] # NoErr]
    ELSE own

\* ferr is a local of procApp: the value tested is the one just assigned
localFerr(w, own) == own

\* a receive that takes the newest element
ChanRecvNewest(q) == [val |-> q[Len(q)], rest |-> SubSeq(q, 1, Len(q) - 1)]

\* <-chn on a non-empty channel: the oldest element, and what stays buffered
ChanRecv(q) == [val |-> Head(q), rest |-> Tail(q)]

\* the arguments of the row's Printf, in column order
Row(r) == <<r.App, r.Accessible, r.Status, r.Notes>>

\* no deferred wg.Done()
DeferredNoDone(w) == "done"

\* no deferred resp.Body.Close()
DeferredNoClose(w) == "wgdone"

\* where a goroutine goes when procApp returns or panics: its deferred calls,
\* last registered first
Deferred(w) == IF bodyOpen[w] = "open" THEN "close" ELSE "wgdone"

GetOutcomes ==
    {[err |-> e, resp |-> <<>>] : e \in GetErrs}
        \cup {[err |-> NoErr, resp |-> <<st>>] : st \in GetStatuses}

ReadOutcomes ==
    {[err |-> e, body |-> ""] : e \in ReadErrs}
        \cup {[err |-> NoErr, body |-> b] : b \in Bodies}

InitWith(n, lists) ==
    /\ net = n
    /\ stdin = <<>>
    /\ sent = <<>>
    /\ apps \in lists
    /\ mpc = "spawn"
    /\ i = 0
    /\ wg = 0
    /\ chn = <<>>
    /\ header = FALSE
    /\ rows = <<>>
    /\ recv = <<>>
    /\ pc = [w \in Procs |-> "idle"]
    /\ ferr = [w \in Procs |-> NoErr]
    /\ resp = [w \in Procs |-> <<>>]
    /\ body = [w \in Procs |-> ""]
    /\ tLen = [w \in Procs |-> tLenInit]
    /\ tReslt = [w \in Procs |-> Zero]
    /\ bodyOpen = [w \in Procs |-> "none"]
    /\ requests = {}
    /\ panicking = {}
    /\ crashed = FALSE

\* a run over an input file of up to MaxApps lines
Init == InitWith("fleet", AppLists(MaxApps))

\* a run over a one-line input file, against every response
InitWide == InitWith("wide", [1..1 -> Sites])

\* wg.Add(1); go procApp(apps[i], chn)
MainSpawn ==
    /\ ~crashed
    /\ mpc = "spawn"
    /\ i < SpawnBound
    /\ wg' = wg + 1
    /\ pc' = [pc EXCEPT ![i + 1] = "start"]
    /\ i' = i + 1
    /\ UNCHANGED <<net, stdin, sent, apps, mpc, chn, header, rows, recv, localVars, bodyOpen,
                   requests, panicking, crashed>>

\* the spawn loop ends
MainSpawnExit ==
    /\ ~crashed
    /\ mpc = "spawn"
    /\ ~(i < SpawnBound)
    /\ mpc' = "wait"
    /\ UNCHANGED <<net, stdin, sent, apps, i, wg, chn, header, rows, recv, pc, localVars,
                   bodyOpen, requests, panicking, crashed>>

\* wg.Wait()
MainWait ==
    /\ ~crashed
    /\ mpc = "wait"
    /\ WaitReturns
    /\ mpc' = "pause"
    /\ UNCHANGED <<net, stdin, sent, apps, i, wg, chn, header, rows, recv, pc, localVars,
                   bodyOpen, requests, panicking, crashed>>

\* the operator's terminal: a line is typed, or the input ends.  What is
\* typed before the pause waits in the terminal until the pause reads it,
\* so it is taken to arrive then.
StdinArrives ==
    /\ ~crashed
    /\ mpc = "pause"
    /\ stdin = <<>>
    /\ \E text \in StdinReads : stdin' = <<text>>
    /\ UNCHANGED <<net, sent, apps, mainVars, wg, chn, pc, localVars, bodyOpen,
                   requests, panicking, crashed>>

\* the pause: reader.ReadString waits until there is something to return;
\* a read that returns text ends the loop, and main prints the header and
\* enters the drain loop; a read that returns "" (the end of the input,
\* which stays) is repeated
MainPause ==
    /\ ~crashed
    /\ mpc = "pause"
    /\ stdin # <<>>
    /\ LET text == stdin[1] IN
          IF Len(text) # 0
          THEN mpc' = "drain" /\ header' = TRUE /\ i' = 0 /\ stdin' = <<>>
          ELSE UNCHANGED <<mpc, header, i, stdin>>
    /\ UNCHANGED <<net, sent, apps, wg, chn, rows, recv, pc, localVars, bodyOpen,
                   requests, panicking, crashed>>

\* v := <-chn; print the row
MainDrain ==
    /\ ~crashed
    /\ mpc = "drain"
    /\ i < DrainBound
    /\ chn # <<>>
    /\ LET v == ChanRecv(chn).val IN
          /\ chn' = ChanRecv(chn).rest
          /\ recv' = Append(recv, v)
          /\ rows' = Append(rows, Row(tReslt[Slot(v)]))
    /\ i' = i + 1
    /\ UNCHANGED <<net, stdin, sent, apps, mpc, wg, header, pc, localVars, bodyOpen, requests,
                   panicking, crashed>>

\* the drain loop ends and main returns
MainDrainExit ==
    /\ ~crashed
    /\ mpc = "drain"
    /\ ~(i < DrainBound)
    /\ mpc' = "done"
    /\ UNCHANGED <<net, stdin, sent, apps, i, wg, chn, header, rows, recv, pc, localVars,
                   bodyOpen, requests, panicking, crashed>>

\* procApp up to the call of http.Get
ProcStart(w) ==
    /\ ~crashed
    /\ pc[w] = "start"
    /\ IF EmptySite(apps[w])
       THEN /\ tReslt' = [tReslt EXCEPT ![Slot(w)] = procAppEmpty(tReslt[Slot(w)], apps[w])]
            /\ pc' = [pc EXCEPT ![w] = WrapUp]
            /\ UNCHANGED requests
       ELSE /\ requests' = requests \cup {<<w, tURLOf(apps[w])>>}
            /\ pc' = [pc EXCEPT ![w] = "get"]
            /\ UNCHANGED tReslt
    /\ UNCHANGED <<net, stdin, sent, apps, mainVars, wg, chn, ferr, resp, body, tLen, bodyOpen,
                   panicking, crashed>>

\* http.Get returns, and procApp runs up to the call of ioutil.ReadAll
HttpGetReturns(w) ==
    /\ ~crashed
    /\ pc[w] = "get"
    /\ \E o \in GetOutcomes :
          /\ ferr' = [ferr EXCEPT ![w] = o.err]
          /\ resp' = [resp EXCEPT ![w] = o.resp]
          /\ IF localFerr(w, o.err) # NoErr
             THEN /\ tReslt' = [tReslt EXCEPT ![Slot(w)] =
                         procAppGetErr(tReslt[Slot(w)], apps[w], localFerr(w, o.err))]
                  /\ pc' = [pc EXCEPT ![w] = WrapUp]
                  /\ UNCHANGED bodyOpen
             ELSE /\ bodyOpen' = [bodyOpen EXCEPT ![w] = "open"]
                  /\ pc' = [pc EXCEPT ![w] = "read"]
                  /\ UNCHANGED tReslt
    /\ UNCHANGED <<net, stdin, sent, apps, mainVars, wg, chn, body, tLen, requests, panicking,
                   crashed>>

\* ioutil.ReadAll returns, and procApp classifies the body
ReadAllReturns(w) ==
    /\ ~crashed
    /\ pc[w] = "read"
    /\ \E o \in ReadOutcomes :
          /\ ferr' = [ferr EXCEPT ![w] = o.err]
          /\ body' = [body EXCEPT ![w] = o.body]
          /\ IF localFerr(w, o.err) # NoErr
             THEN /\ tReslt' = [tReslt EXCEPT ![Slot(w)] =
                         procAppReadErr(tReslt[Slot(w)], apps[w], localFerr(w, o.err))]
                  /\ UNCHANGED tLen
             ELSE /\ tReslt' = [tReslt EXCEPT ![Slot(w)] =
                         procAppBody(tReslt[Slot(w)], apps[w], resp[w][1], o.body, tLen[w])]
                  /\ tLen' = [tLen EXCEPT ![w] = procAppTLen(o.body, tLen[w])]
    /\ pc' = [pc EXCEPT ![w] = WrapUp]
    /\ UNCHANGED <<net, stdin, sent, apps, mainVars, wg, chn, resp, bodyOpen, requests,
                   panicking, crashed>>

\* c <- &tReslt; return
ProcSend(w) ==
    /\ ~crashed
    /\ pc[w] = "send"
    /\ Len(chn) < ChanCap
    /\ chn' = Append(chn, w)
    /\ sent' = Append(sent, w)
    /\ pc' = [pc EXCEPT ![w] = Deferred(w)]
    /\ UNCHANGED <<net, stdin, apps, mainVars, wg, localVars, bodyOpen, requests,
                   panicking, crashed>>

\* the deferred resp.Body.Close()
ProcClose(w) ==
    /\ ~crashed
    /\ pc[w] = "close"
    /\ bodyOpen' = [bodyOpen EXCEPT ![w] = "closed"]
    /\ pc' = [pc EXCEPT ![w] = "wgdone"]
    /\ UNCHANGED <<net, stdin, sent, apps, mainVars, wg, chn, localVars, requests, panicking,
                   crashed>>

\* the deferred wg.Done(); a goroutine that is not panicking has returned
ProcDone(w) ==
    /\ ~crashed
    /\ pc[w] = "wgdone"
    /\ wg' = wg - 1
    /\ pc' = [pc EXCEPT ![w] = IF w \in panicking THEN "fatal" ELSE "done"]
    /\ UNCHANGED <<net, stdin, sent, apps, mainVars, chn, localVars, bodyOpen, requests,
                   panicking, crashed>>

\* a call made by procApp panics: the goroutine unwinds through its defers
ProcPanic(w) ==
    /\ ~crashed
    /\ pc[w] \in {"get", "read"}
    /\ panicking' = panicking \cup {w}
    /\ pc' = [pc EXCEPT ![w] = Deferred(w)]
    /\ UNCHANGED <<net, stdin, sent, apps, mainVars, wg, chn, localVars, bodyOpen, requests,
                   crashed>>

\* the panic was not recovered: the runtime ends the process
ProcFatal(w) ==
    /\ ~crashed
    /\ pc[w] = "fatal"
    /\ crashed' = TRUE
    /\ UNCHANGED <<net, stdin, sent, apps, mainVars, wg, chn, pc, localVars, bodyOpen,
                   requests, panicking>>

\* a step of main
MainStep ==
    \/ MainSpawn
    \/ MainSpawnExit
    \/ MainWait
    \/ MainPause
    \/ MainDrain
    \/ MainDrainExit

Next ==
    \/ StdinArrives
    \/ MainSpawn
    \/ MainSpawnExit
    \/ MainWait
    \/ MainPause
    \/ MainDrain
    \/ MainDrainExit
    \/ \E w \in Procs : ProcStart(w)
    \/ \E w \in Procs : HttpGetReturns(w)
    \/ \E w \in Procs : ReadAllReturns(w)
    \/ \E w \in Procs : ProcSend(w)
    \/ \E w \in Procs : ProcClose(w)
    \/ \E w \in Procs : ProcDone(w)

NextPanic ==
    \/ Next
    \/ \E w \in Procs : ProcPanic(w)
    \/ \E w \in Procs : ProcFatal(w)

\* a step of goroutine w
ProcStep(w) ==
    \/ ProcStart(w)
    \/ HttpGetReturns(w)
    \/ ReadAllReturns(w)
    \/ ProcSend(w)
    \/ ProcClose(w)
    \/ ProcDone(w)

\* the program over input files of up to MaxApps lines
Spec == Init /\ [][Next]_vars

\* one probe against every error message and body
SpecWide == InitWide /\ [][Next]_vars

\* the program under a fair scheduler and a network whose calls return:
\* main and every goroutine take a step they can take; nothing is assumed
\* of the operator's terminal
SpecLive ==
    /\ Init
    /\ [][Next]_vars
    /\ WF_vars(MainStep)
    /\ \A w \in 1..MaxApps : WF_vars(w \in Procs /\ ProcStep(w))

\* the program when a call inside procApp may panic
SpecPanic == Init /\ [][NextPanic]_vars

----------------------------------------------------------------------------
(* Measures used by the properties *)

\* how many elements of the sequence s equal x
Count(s, x) == Cardinality({k \in 1..Len(s) : s[k] = x})

\* the App column of the report
RowApps == [k \in 1..Len(rows) |-> rows[k][1]]

\* how many times goroutine w's result was put on the channel
Delivered(w) == Count(chn, w) + Count(recv, w)

\* goroutine w has run its deferred wg.Done()
Signalled(w) == pc[w] \in {"done", "fatal"}

\* goroutine w has filled its result
Filled(w) == pc[w] \in {"send", "close", "wgdone", "done"}

\* the result that goroutine w's own identifier and own outcomes determine
OwnResult(w) ==
    IF apps[w] = "" THEN procAppEmpty(Zero, apps[w])
    ELSE IF resp[w] = <<>> THEN procAppGetErr(Zero, apps[w], ferr[w])
    ELSE IF ferr[w] # NoErr THEN procAppReadErr(Zero, apps[w], ferr[w])
    ELSE procAppBody(Zero, apps[w], resp[w][1], body[w], tLenInit)

\* goroutine w read its response's body without error
ReadOK(w) == Filled(w) /\ resp[w] # <<>> /\ ferr[w] = NoErr

HasAvant(b) == Contains(b, AvantUS) \/ Contains(b, AvantUK)
HasMarker(b) == HasAvant(b) \/ Contains(b, HerokuErr) \/ Contains(b, HerokuWel)
HasHtmlAndBody(b) ==
    /\ Contains(b, "<html") \/ Contains(b, "<HTML")
    /\ Contains(b, "<body") \/ Contains(b, "<BODY")

MinOf(a, b) == IF a < b THEN a ELSE b

----------------------------------------------------------------------------
(* Properties *)

\* C1: once the run has finished the report holds exactly len(apps) data
\* rows, the multiset of their App fields is the multiset of the input
\* identifiers, and every goroutine's result was received exactly once.
C1_ReportIsOneRowPerTarget ==
    mpc = "done" =>
        /\ Len(rows) = Len(apps)
        /\ \A s \in Sites : Count(RowApps, s) = Count(apps, s)
        /\ \A w \in Procs : Count(recv, w) = 1

\* a finished run over a file that repeats the empty identifier, the second
\* goroutine's result having arrived first
C1_Witness ==
    /\ mpc = "done"
    /\ Len(apps) = 2
    /\ apps[1] = "" /\ apps[2] = ""
    /\ recv = <<2, 1>>

\* C2: main receives nothing from the channel and prints no row until every
\* goroutine has run its deferred wg.Done().
C2_NoRowBeforeBarrier ==
    (recv # <<>> \/ rows # <<>>) => \A w \in Procs : Signalled(w)

\* main has printed the first of two rows
C2_Witness ==
    /\ Len(apps) = 2
    /\ Len(rows) = 1
    /\ mpc = "drain"

\* C3: the number of results buffered in the channel never exceeds
\* len(apps), and a goroutine at its send always finds room in the channel.
C3_SendNeverBlocks ==
    /\ Len(chn) <= Len(apps)
    /\ \A w \in Procs : pc[w] = "send" => Len(chn) < ChanCap

\* before the barrier, one result is buffered and another goroutine is at
\* its send
C3_Witness ==
    /\ mpc = "wait"
    /\ Len(chn) = 1
    /\ \E w \in Procs : pc[w] = "send"

C5_FailureIsolation ==
    /\ \A w \in Procs : Filled(w) => tReslt[w] = OwnResult(w)
    /\ \A w, v \in Procs :
          (/\ Filled(w) /\ Filled(v)
           /\ apps[w] = apps[v] /\ resp[w] = resp[v]
           /\ ferr[w] = ferr[v] /\ body[w] = body[v])
              => tReslt[w] = tReslt[v]
    /\ mpc = "done" =>
          \A w \in Procs :
              \E k \in 1..Len(rows) : recv[k] = w /\ rows[k] = Row(OwnResult(w))

\* a finished run of two probes of the same site: the first one's fetch
\* failed, the second one found an HTML page, and both rows are printed
C5_Witness ==
    /\ mpc = "done"
    /\ apps = <<"a", "a">>
    /\ resp[1] = <<>> /\ ~tReslt[1].Accessible
    /\ tReslt[2].Accessible /\ tReslt[2].Notes = "HTML page"
    /\ Len(rows) = 2

\* C6: a goroutine given the empty identifier issues no HTTP GET and never
\* waits in a network call, and its result is ("", false, 999, "no site name
\* was provided").
C6_EmptySiteNoRequest ==
    \A w \in Procs :
        apps[w] = "" =>
            /\ \A q \in requests : q[1] # w
            /\ pc[w] \notin {"get", "read"}
            /\ resp[w] = <<>> /\ bodyOpen[w] = "none"
            /\ Filled(w) =>
                  tReslt[w] = [App |-> "", Accessible |-> FALSE, Status |-> 999,
                               Notes |-> "no site name was provided"]

\* the goroutine of an empty line is done while the other one's GET was
\* issued
C6_Witness ==
    \E w, v \in Procs :
        /\ apps[w] = "" /\ pc[w] = "done"
        /\ <<v, "http://a.herokuapp.com">> \in requests

\* C7 as stated: a failed GET gives reachable=false, status 999 when the
\* message contains "EOF", status 200 when it contains the certificate
\* marker, status 999 otherwise, and the notes hold the raw error text.
C7_Original ==
    \A w \in Procs :
        (Filled(w) /\ apps[w] # "" /\ resp[w] = <<>>) =>
            /\ ~tReslt[w].Accessible
            /\ Contains(tReslt[w].Notes, ferr[w])
            /\ Contains(ferr[w], "EOF") => tReslt[w].Status = 999
            /\ Contains(ferr[w], "x509: certificate is valid for")
                  => tReslt[w].Status = 200
            /\ (/\ ~Contains(ferr[w], "EOF")
                /\ ~Contains(ferr[w], "x509: certificate is valid for"))
                  => tReslt[w].Status = 999

\* C7 amended: the "EOF" test comes first, so the status is 200 only when
\* the message contains the certificate marker and does not contain "EOF".
C7_TransportErrorStatus ==
    \A w \in Procs :
        (Filled(w) /\ apps[w] # "" /\ resp[w] = <<>>) =>
            /\ ~tReslt[w].Accessible
            /\ tReslt[w].App = apps[w]
            /\ Contains(tReslt[w].Notes, ferr[w])
            /\ Contains(ferr[w], "EOF") => tReslt[w].Status = 999
            /\ (/\ ~Contains(ferr[w], "EOF")
                /\ Contains(ferr[w], "x509: certificate is valid for"))
                  => tReslt[w].Status = 200
            /\ (/\ ~Contains(ferr[w], "EOF")
                /\ ~Contains(ferr[w], "x509: certificate is valid for"))
                  => tReslt[w].Status = 999

\* a GET failed with a certificate error that does not mention EOF
C7_Witness ==
    \E w \in Procs :
        /\ Filled(w) /\ resp[w] = <<>>
        /\ Contains(ferr[w], "x509: certificate is valid for")
        /\ ~Contains(ferr[w], "EOF")
        /\ tReslt[w].Status = 200

\* C8: a body that was read is classified by the first rule that matches, in
\* the order Avant marker, Heroku error marker, Heroku welcome marker, then
\* the rest: a body with any marker is unreachable whatever tags it holds,
\* the notes are those of the earliest matching rule, and the status is the
\* response's.
C8_FirstMatchWins ==
    \A w \in Procs :
        ReadOK(w) =>
            LET b == body[w]
                r == tReslt[w]
            IN  /\ r.Status = resp[w][1]
                /\ r.App = apps[w]
                /\ HasMarker(b) => ~r.Accessible
                /\ ~HasMarker(b) => r.Accessible
                /\ HasAvant(b) => r.Notes = "Avant error page"
                /\ (~HasAvant(b) /\ Contains(b, HerokuErr))
                      => r.Notes = "Heroku error page"
                /\ (~HasAvant(b) /\ ~Contains(b, HerokuErr) /\ Contains(b, HerokuWel))
                      => r.Notes = "Heroku welcome page"

\* a body that holds the welcome marker, then an Avant marker, then a whole
\* HTML page is reported as the Avant error page
C8_Witness ==
    \E w \in Procs :
        /\ ReadOK(w)
        /\ body[w] = HerokuWel \o AvantUS \o Page
        /\ tReslt[w].Notes = "Avant error page"
        /\ ~tReslt[w].Accessible

\* C9: a body that was read and holds no marker gives (reachable=true, the
\* response's status, "HTML page") exactly when it contains "<html" or
\* "<HTML" and also "<body" or "<BODY"; otherwise it gets the fallback's
\* preview notes.
C9_HtmlPage ==
    \A w \in Procs :
        (ReadOK(w) /\ ~HasMarker(body[w])) =>
            /\ HasHtmlAndBody(body[w]) <=>
                  tReslt[w] = [App |-> apps[w], Accessible |-> TRUE,
                               Status |-> resp[w][1], Notes |-> "HTML page"]
            /\ ~HasHtmlAndBody(body[w]) =>
                  /\ tReslt[w].Accessible
                  /\ SubSeq(tReslt[w].Notes, 1, 18) = "found this (first "

\* the upper-case spellings of both tags are an HTML page
C9_Witness ==
    \E w \in Procs :
        /\ ReadOK(w)
        /\ body[w] = "<HTML>" \o "<BODY>"
        /\ tReslt[w].Notes = "HTML page"
        /\ tReslt[w].Status = 503

\* C10: a body of L bytes that was read, holds no marker and is not HTML
\* gives reachable=true, the response's status and the notes "found this
\* (first n bytes): " followed by the body's first n bytes and "...", where
\* n = min(50, L) is the slice bound tLen, never above L.
C10_PreviewClamp ==
    \A w \in Procs :
        (ReadOK(w) /\ ~HasMarker(body[w]) /\ ~HasHtmlAndBody(body[w])) =>
            LET L == Len(body[w])
                n == MinOf(50, L)
            IN  /\ tLen[w] = n
                /\ tLen[w] <= L
                /\ tReslt[w] =
                      [App |-> apps[w], Accessible |-> TRUE, Status |-> resp[w][1],
                       Notes |-> "found this (first " \o ToString(n) \o " bytes): "
                                     \o SubSeq(body[w], 1, n) \o "..."]

\* a body of 51 bytes is previewed by its first 50
C10_Witness ==
    \E w \in Procs :
        /\ ReadOK(w)
        /\ Len(body[w]) = 51
        /\ tLen[w] = 50
        /\ tReslt[w].Notes =
              "found this (first 50 bytes): " \o SubSeq(body[w], 1, 50) \o "..."

\* C11 as stated: with an empty input file main is never blocked: until it
\* has finished, a step of main is always possible.
C11_Original ==
    apps = <<>> => (mpc = "done" \/ ENABLED MainStep)

\* C11 amended: with an empty input file no goroutine is launched and no GET
\* is issued; main is not blocked at the spawn loop, at wg.Wait() or in the
\* drain loop, which makes no receive; it waits at the pause until standard
\* input has something to read, and only a read that returns text lets it
\* on; the header is printed after the pause and no data row ever is.
C11_EmptyListWaitsOnlyAtPause ==
    apps = <<>> =>
        /\ Procs = {} /\ requests = {} /\ wg = 0
        /\ chn = <<>> /\ recv = <<>> /\ rows = <<>>
        /\ mpc \in {"spawn", "wait", "drain"} => ENABLED MainStep
        /\ (mpc = "pause" /\ stdin # <<>>) => ENABLED MainPause
        /\ (mpc = "pause" /\ stdin = <<>>) => ~ENABLED MainStep
        /\ header <=> mpc \in {"drain", "done"}

\* the run over an empty file has finished: the header and no data row
C11_Witness ==
    /\ apps = <<>>
    /\ mpc = "done"
    /\ header
    /\ rows = <<>>

\* C12: a filled result has reachable=true exactly when its goroutine got a
\* response, read the whole body without error and the body holds none of
\* the placeholder markers; the empty identifier, a transport error, a
\* body-read failure and a marker match all give reachable=false, whatever
\* the status; and every printed row carries its result's verdict.
C12_ReachableIffRealContent ==
    /\ \A w \in Procs :
          Filled(w) =>
              (tReslt[w].Accessible <=>
                  /\ apps[w] # ""
                  /\ resp[w] # <<>>
                  /\ ferr[w] = NoErr
                  /\ ~HasMarker(body[w]))
    /\ \A k \in 1..Len(rows) : rows[k][2] = tReslt[recv[k]].Accessible

\* a welcome page served with status 200 is printed as not reachable
C12_Witness ==
    \E w \in Procs :
        /\ mpc = "done"
        /\ ReadOK(w)
        /\ Contains(body[w], HerokuWel)
        /\ rows = << <<"a", FALSE, 200, "Heroku welcome page">> >>

\* C13: the status is the response's status code when a response was
\* obtained and its body read, and 999 for the empty identifier, for every
\* transport error and for a body-read failure.
C13_StatusIsCodeOrSentinel ==
    \A w \in Procs :
        Filled(w) =>
            IF ReadOK(w) THEN tReslt[w].Status = resp[w][1]
            ELSE tReslt[w].Status = 999

\* the body holds the first (800-712-5407) Avant marker and not the second
OnlyAvantUS(b) == Contains(b, AvantUS) /\ ~Contains(b, AvantUK)

\* the body holds the second (0800 610 1516) Avant marker and not the first
OnlyAvantUK(b) == Contains(b, AvantUK) /\ ~Contains(b, AvantUS)

\* C14 as stated: a body with an Avant marker is not reachable and its notes
\* name the marker that matched: bodies that match different variants get
\* different notes.
C14_Original ==
    \A w, v \in Procs :
        (ReadOK(w) /\ ReadOK(v) /\ OnlyAvantUS(body[w]) /\ OnlyAvantUK(body[v])) =>
            /\ ~tReslt[w].Accessible /\ ~tReslt[v].Accessible
            /\ tReslt[w].Notes # tReslt[v].Notes

\* C14 amended: a body with either Avant marker is not reachable, carries
\* the response's status and the notes "Avant error page", which name the
\* rule and are the same for both variants.
C14_AvantNotesNameTheRule ==
    /\ \A w \in Procs :
          (ReadOK(w) /\ HasAvant(body[w])) =>
              tReslt[w] = [App |-> apps[w], Accessible |-> FALSE,
                           Status |-> resp[w][1], Notes |-> "Avant error page"]
    /\ \A w, v \in Procs :
          (ReadOK(w) /\ ReadOK(v) /\ OnlyAvantUS(body[w]) /\ OnlyAvantUK(body[v]))
              => tReslt[w].Notes = tReslt[v].Notes

\* two probes met the two variants and both rows are printed
C14_Witness ==
    /\ mpc = "done"
    /\ Len(apps) = 2
    /\ ReadOK(1) /\ OnlyAvantUS(body[1])
    /\ ReadOK(2) /\ OnlyAvantUK(body[2])
    /\ rows[1][4] = "Avant error page" /\ rows[2][4] = "Avant error page"

\* C15: a goroutine that got a response holds its body open until its
\* deferred Close, which finds the body open and runs before the deferred
\* wg.Done(), on the read-failure path, on every verdict and when ReadAll
\* panics; a goroutine that got no response closes nothing; once main is past
\* the barrier no body is open.
C15_BodyClosedOnceBeforeDone ==
    /\ \A w \in Procs :
          /\ resp[w] = <<>> => bodyOpen[w] = "none"
          /\ resp[w] # <<>> => bodyOpen[w] \in {"open", "closed"}
          /\ pc[w] = "read" => bodyOpen[w] = "open"
          /\ pc[w] = "close" => bodyOpen[w] = "open"
          /\ pc[w] \in {"wgdone", "done", "fatal"} => bodyOpen[w] # "open"
          /\ bodyOpen[w] = "closed" => pc[w] \in {"wgdone", "done", "fatal"}
    /\ mpc \in {"pause", "drain", "done"} =>
          \A w \in Procs : bodyOpen[w] # "open"

\* the barrier has released: one goroutine's body read failed and its body
\* is closed, the other one's GET failed and it closed nothing
C15_Witness ==
    /\ mpc = "pause"
    /\ \E w, v \in Procs :
          /\ resp[w] # <<>> /\ ferr[w] # NoErr /\ bodyOpen[w] = "closed"
          /\ apps[v] # "" /\ resp[v] = <<>> /\ bodyOpen[v] = "none"
          /\ pc[w] = "done" /\ pc[v] = "done"

\* C16: the channel is first-in first-out: what main has received followed
\* by what is still buffered is the sequence of the sends, so the k-th row
\* is the result of the k-th send, whatever the input order.
C16_RowsInArrivalOrder ==
    /\ recv \o chn = sent
    /\ Len(rows) = Len(recv)
    /\ \A k \in 1..Len(rows) :
          /\ recv[k] = sent[k]
          /\ rows[k] = Row(tReslt[sent[k]])

\* a finished run whose rows are in the order of the sends and not in the
\* input order: the first row is the second target's
C16_Witness ==
    /\ mpc = "done"
    /\ apps = <<"a", "">>
    /\ sent = <<2, 1>>
    /\ rows[1][1] = "" /\ rows[2][1] = "a"

\* C17: a goroutine that has signalled completion has sent its result, so
\* from the release of the barrier to the first receive the channel holds
\* len(apps) results; in the drain loop it holds the len(apps) - i results
\* not yet received, so a receive that is due finds one and main can step;
\* after the last receive the channel is empty.
C17_DrainNeverBlocks ==
    /\ \A w \in Procs : Signalled(w) => Delivered(w) = 1
    /\ mpc = "pause" => Len(chn) = Len(apps)
    /\ mpc = "drain" =>
          /\ Len(chn) = Len(apps) - i
          /\ i < Len(apps) => chn # <<>>
          /\ ENABLED MainStep
    /\ mpc = "done" => chn = <<>> /\ Len(recv) = Len(apps)

\* main has made the first of its two receives and the second result waits
\* in the channel
C17_Witness ==
    /\ mpc = "drain"
    /\ Len(apps) = 2
    /\ i = 1
    /\ Len(chn) = 1

\* C18 as stated: when every fetch and every body read returns, the run
\* eventually prints all len(apps) rows and terminates.
C18_Original ==
    <>(mpc = "done" /\ Len(rows) = Len(apps))

\* C18 amended: when every fetch and every body read returns, the run
\* eventually passes the barrier and reaches the pause; from a pause at
\* which a read of standard input returns text it goes on to print all
\* len(apps) rows and terminate; and while some goroutine has not yet
\* signalled completion, no row is printed.
C18_TerminatesAfterStdin ==
    /\ <>(mpc = "pause")
    /\ (mpc = "pause" /\ stdin = <<"go\n">>)
          ~> (mpc = "done" /\ Len(rows) = Len(apps))
    /\ [](\A w \in Procs : pc[w] # "done" => rows = <<>>)

\* both fetches returned, a line was typed, and the run printed two rows
C18_Witness ==
    /\ mpc = "done"
    /\ apps = <<"a", "a">>
    /\ resp[1] # <<>> /\ resp[2] = <<>>
    /\ Len(rows) = 2
    /\ stdin = <<>>

\* C19: a goroutine's record changes only in the step of that goroutine
\* that fills it, which comes before its send and happens once; a step
\* that changes one record changes no other; from the send on the record
\* keeps its values, and the row printed for a received pointer is the
\* record as its goroutine filled it.
C19_ResultWrittenOnceByOwner ==
    /\ [](\A w \in Procs :
             /\ ~Filled(w) => tReslt[w] = Zero
             /\ Filled(w) => tReslt[w] = OwnResult(w))
    /\ [](\A k \in 1..Len(rows) : rows[k] = Row(OwnResult(recv[k])))
    /\ [][\A w \in Procs :
             tReslt'[w] # tReslt[w] =>
                /\ ~Filled(w) /\ pc'[w] = "send"
                /\ Delivered(w) = 0
                /\ \A v \in Procs \ {w} : tReslt'[v] = tReslt[v]]_vars

\* two goroutines filled different records, both were received and printed
C19_Witness ==
    /\ mpc = "done"
    /\ Len(rows) = 2
    /\ tReslt[1] # tReslt[2]
    /\ tReslt[1].Accessible /\ ~tReslt[2].Accessible
    /\ rows[1] = Row(tReslt[recv[1]]) /\ rows[2] = Row(tReslt[recv[2]])
    /\ recv = <<2, 1>>

====
